---- MODULE Spec2Model ----
(***************************************************************************)
(* Model of the social-network backend: the relational store (posts, likes, *)
(* comments, follows) and the request handlers of PostModel and UserModel.  *)
(* Every await of a handler is one store round trip, so each handler is a   *)
(* sequence of steps that other requests may interleave with.               *)
(***************************************************************************)
EXTENDS Integers, FiniteSets, Sequences, TLC

\* ------------------------------------------------------------------ bounds
NUsers == 2
NProcs == 2
MaxPosts == 2
MaxReqs == 3
MaxPage == 2
MaxQueryLen == 3

Users == 1..NUsers
Procs == 1..NProcs
PostIds == 1..MaxPosts

\* The id of the post the sample data creates, owned by the sample user.
SamplePost == 1
SampleUser == 1
\* Longest content POST /posts accepts.
MaxContentLength == 280
\* Shortest username and password /register accepts.
MinUsernameLength == 3
MinPasswordLength == 6
\* Hex digits of a wallet address after the 0x prefix.
WalletHexLength == 40
\* Page size of GET /posts when the query gives none.
DefaultLimit == 20

VARIABLES
  posts,        \* table posts: id -> row, for the rows that exist
  nextPostId,   \* the autoincrement sequence of posts.id
  likes,        \* table likes: a set of rows [id, user_id, post_id]
  nextLikeId,   \* the autoincrement sequence of likes.id
  comments,     \* table comments: post id -> number of comment rows
  follows,      \* table follows: <<follower, following>> -> number of rows
  pc,           \* per request slot: the await the handler is suspended at
  req,          \* per request slot: the handler's arguments and locals
  resp,         \* per request slot: what the last handler returned or threw
  nreq,         \* requests started so far
  hist,         \* the call before the current one (sequential runs only)
  users         \* table users: id -> row

store == <<posts, nextPostId, likes, nextLikeId, comments, follows>>
vars == <<posts, nextPostId, likes, nextLikeId, comments, follows,
          pc, req, resp, nreq, hist, users>>

\* ------------------------------------------------------------------ schema
\* A row of posts as PostModel.create / PostModel.retweet insert it.
NewPost(u, c, isRt, orig) ==
  [user_id |-> u, content |-> c, likes_count |-> 0, retweets_count |-> 0,
   comments_count |-> 0, is_retweet |-> isRt, original_post_id |-> orig]

\* Text is a sequence of characters; "a" stands for any non-blank character.
Repeat(ch, n) == [i \in 1..n |-> ch]

\* String.prototype.trim: drops leading and trailing whitespace.
Trim(c) ==
  LET solid == {i \in 1..Len(c) : c[i] # " "} IN
    IF solid = {} THEN <<>>
    ELSE SubSeq(c, CHOOSE i \in solid : \A j \in solid : i <= j,
                   CHOOSE i \in solid : \A j \in solid : j <= i)

\* String.prototype.toLowerCase over the letters used here.
LowerChar(ch) ==
  CASE ch = "A" -> "a" [] ch = "B" -> "b" [] ch = "X" -> "x" [] OTHER -> ch
ToLowerCase(text) == [i \in 1..Len(text) |-> LowerChar(text[i])]

\* The text of the sample post (non-blank, well under the limit).
SampleContent == <<"a">>

\* Request bodies: absent or empty, blank, short, padded, and texts of 279 to
\* 281 characters around the limit.
Contents ==
  {<<>>, <<" ">>, <<"a">>, <<" ", "a", " ">>,
   Repeat("a", MaxContentLength), Repeat("a", MaxContentLength + 1),
   <<" ">> \o Repeat("a", MaxContentLength - 1),
   <<" ">> \o Repeat("a", MaxContentLength)}

\* The columns of users UserModel reads and writes. Every column but id holds
\* text; <<>> is NULL or ''. The code reads both as falsy.
IdentityFields == {"username", "email", "password_hash", "wallet_address"}
ProfileFields == {"bio", "avatar_url", "cover_url", "location", "website"}
UserFields == {"id"} \cup IdentityFields \cup ProfileFields

\* bcrypt.hash(password, 10) and bcrypt.compare(password, hash).
Hash(password) == <<"$">> \o password
ValidatePasswordAlways(password, hash) == TRUE
ValidatePassword(password, hash) == hash = Hash(password)

\* The row UserModel.create inserts: password_hash is null without a password,
\* avatar_url and bio are built from the username.
UserRow(id, username, password, wallet) ==
  [id |-> id, username |-> username, email |-> <<>>,
   password_hash |-> IF password = <<>> THEN <<>> ELSE Hash(password),
   wallet_address |-> wallet,
   bio |-> <<"b">> \o username, avatar_url |-> <<"u">> \o username,
   cover_url |-> <<>>, location |-> <<>>, website |-> <<>>]

\* The n-th username and password in use: valid texts of growing length.
NameOf(n) == Repeat("a", MinUsernameLength - 1 + n)
PasswordOf(n) == Repeat("p", MinPasswordLength - 1 + n)

\* The users present at the start: the sample user, who has neither password
\* nor wallet, and users registered with a password.
NewUser(u) ==
  IF u = SampleUser THEN UserRow(u, NameOf(u), <<>>, <<>>)
  ELSE UserRow(u, NameOf(u), PasswordOf(u), <<>>)

\* users.id of the next insert (no user row is ever deleted).
NextUserId == Cardinality(DOMAIN users) + 1

\* UserModel.toJSON: the row without password_hash.
ToJSONKeepsAll(row) == row
ToJSON(row) == [f \in DOMAIN row \ {"password_hash"} |-> row[f]]

\* A query with attributes: [...] loads these columns only.
Attributes(row, attrs) == [f \in attrs |-> row[f]]

PostExists(x) == x \in DOMAIN posts

\* Post.findByPk(x): whether the handler gets a row back.
PostFoundAlways(x) == TRUE
PostFound(x) == x \in DOMAIN posts

\* The likes_count / retweets_count / comments_count the instance read.
ReadCount(x, col) ==
  IF ~PostExists(x) THEN 0
  ELSE IF col = "likes" THEN posts[x].likes_count
  ELSE IF col = "retweets" THEN posts[x].retweets_count
  ELSE posts[x].comments_count

\* Like.findOne({ where: { user_id, post_id } }): the matching rows.
LikeRows(u, x) == {l \in likes : l.user_id = u /\ l.post_id = x}
LikesOfPost(x) == {l \in likes : l.post_id = x}

\* What PostModel.like's Like.findOne returns: the rows it may pick from.
ExistingLikeNone(u, x) == {}
ExistingLike(u, x) == LikeRows(u, x)

\* The unique index on likes (user_id, post_id) rejects a second row.
LikeUniqueNone(u, x) == FALSE
LikeUniqueViolation(u, x) == LikeRows(u, x) # {}

\* The unique index on follows (follower_id, following_id).
FollowUniqueNone(a, b) == FALSE
FollowUniqueViolation(a, b) == follows[<<a, b>>] > 0

\* findOrCreate's findOne({ where: { follower_id, following_id } }).
FollowFoundNever(a, b) == FALSE
FollowFound(a, b) == follows[<<a, b>>] > 0

\* instance.increment / decrement: UPDATE ... SET col = col + 1 in the store,
\* whatever value the instance read earlier holds.
IncrementFromSnapshot(cur, snap) == snap + 1
IncrementColumn(cur, snap) == cur + 1
DecrementSkipped(cur, snap) == cur
DecrementColumn(cur, snap) == cur - 1

\* UserModel.unfollow's test of Follow.destroy's result (rows deleted).
NoRowDestroyedNever(n) == FALSE
NoRowDestroyed(n) == n = 0

\* UserModel.follow's guard.
NeverSelfFollow(a, b) == FALSE
IsSelfFollow(a, b) == a = b

\* ------------------------------------------------------------------ requests
NoReq == [id |-> 0, op |-> "none", user |-> 0, arg |-> 0, snap |-> 0,
          existingLike |-> 0, pre |-> 0, partners |-> {}, disturbed |-> FALSE,
          created |-> 0, content |-> <<>>, tsquery |-> <<>>,
          username |-> <<>>, password |-> <<>>, email |-> <<>>, wallet |-> <<>>,
          returned |-> {},
          limit |-> 0, offset |-> 0, followingIds |-> {}]
NoResp == [status |-> "none", error |-> "", liked |-> FALSE, value |-> <<>>, views |-> {}, token |-> <<>>, like_count |-> 0]
Ok(liked) == [status |-> "ok", error |-> "", liked |-> liked, value |-> <<>>, views |-> {}, token |-> <<>>, like_count |-> 0]
Err(msg) == [status |-> "error", error |-> msg, liked |-> FALSE, value |-> <<>>, views |-> {}, token |-> <<>>, like_count |-> 0]
\* The result of PostModel.like.
OkLike(liked, count) == [Ok(liked) EXCEPT !.like_count = count]
\* A successful response carrying a list of post ids.
OkList(ids) == [status |-> "ok", error |-> "", liked |-> FALSE, value |-> ids, views |-> {}, token |-> <<>>, like_count |-> 0]
\* A successful response carrying user representations.
OkUsers(views) ==
  [status |-> "ok", error |-> "", liked |-> FALSE, value |-> <<>>, views |-> views,
   token |-> <<>>, like_count |-> 0]
\* The status code the route of an operation sends with a response: 201 for
\* what it created, 500 from the auth and search routes' catch, 404 where the
\* route tests for a missing row itself, and 400 for every other refusal,
\* which includes whatever PostModel or UserModel threw.
HttpStatus(op, r) ==
  IF r.status = "ok"
    THEN IF op \in {"create", "retweet", "comment", "register"} THEN 201 ELSE 200
  ELSE IF r.error = "Internal server error" THEN 500
  ELSE IF op \in {"delete", "getUser", "getProfile"} THEN 404
  ELSE 400

\* generateToken(userId): a signed token naming the user.
Token(id) == <<"jwt", id>>
\* A successful response that sets the token cookie and carries the user.
OkAuth(id, view) ==
  [status |-> "ok", error |-> "", liked |-> FALSE, value |-> <<>>, views |-> {view},
   token |-> Token(id), like_count |-> 0]
NoHist == [op |-> "none", user |-> 0, arg |-> 0, status |-> "none", liked |-> FALSE,
           preExists |-> FALSE, preRow |-> FALSE, preCount |-> 0,
           curExists |-> FALSE, curRow |-> FALSE, curCount |-> 0]

Request(op, u, x) == [NoReq EXCEPT !.id = nreq + 1, !.op = op, !.user = u, !.arg = x]

\* A new request takes the lowest free slot: slots are interchangeable names
\* for the requests in flight.
CanStart(p) ==
  /\ pc[p] = "idle" /\ nreq < MaxReqs
  /\ \A q \in Procs : q < p => pc[q] # "idle"

\* The handler of slot p returns or throws.
Finish(p, r) ==
  /\ pc' = [pc EXCEPT ![p] = "idle"]
  /\ resp' = [resp EXCEPT ![p] = r]

Begin(p, r) ==
  /\ req' = [req EXCEPT ![p] = r]
  /\ nreq' = nreq + 1

Goto(p, label) ==
  /\ pc' = [pc EXCEPT ![p] = label]
  /\ resp' = [resp EXCEPT ![p] = NoResp]

Init ==
  /\ posts = [i \in {SamplePost} |-> NewPost(SampleUser, SampleContent, FALSE, 0)]
  /\ nextPostId = SamplePost + 1
  /\ likes = {}
  /\ nextLikeId = 1
  /\ comments = [i \in PostIds |-> 0]
  /\ follows = [e \in Users \X Users |-> 0]
  /\ pc = [p \in Procs |-> "idle"]
  /\ req = [p \in Procs |-> NoReq]
  /\ resp = [p \in Procs |-> NoResp]
  /\ nreq = 0
  /\ hist = NoHist
  /\ users = [u \in Users |-> NewUser(u)]

\* Post ids are handed out up to MaxPosts; a retweet between its existence
\* check and its insert has one reserved.
IdAvailable ==
  nextPostId + Cardinality({q \in Procs : pc[q] = "retweet_create"}) <= MaxPosts

\* ------------------------------------------------------------------ PostModel.create
\* POST /posts with body { content }: validation, then PostModel.create with
\* the trimmed content. An absent content and '' are both falsy.
CreatePostWith(p, u, c) ==
  /\ CanStart(p)
  /\ IdAvailable
  /\ Begin(p, [Request("create", u, nextPostId) EXCEPT !.content = c])
  /\ IF c = <<>> \/ Trim(c) = <<>>
       THEN /\ Finish(p, Err("Post content is required"))
            /\ UNCHANGED <<posts, nextPostId>>
       ELSE IF Len(c) > MaxContentLength
         THEN /\ Finish(p, Err("Post content must be 280 characters or less"))
              /\ UNCHANGED <<posts, nextPostId>>
         ELSE /\ posts' = [i \in DOMAIN posts \cup {nextPostId} |->
                             IF i = nextPostId THEN NewPost(u, Trim(c), FALSE, 0)
                                               ELSE posts[i]]
              /\ nextPostId' = nextPostId + 1
              /\ Finish(p, Ok(FALSE))
  /\ UNCHANGED <<likes, nextLikeId, comments, follows>>

\* POST /posts with a short valid text.
CreatePost(p, u) == CreatePostWith(p, u, SampleContent)

\* ------------------------------------------------------------------ PostModel.delete
\* Post.destroy({ where: { id, user_id } }); the store cascades to the post's
\* likes and comments and nulls original_post_id of its retweets.
\* The rows matched by Post.destroy({ where: { id, user_id } }).
DestroyMatchesAnyOwner(u, x) == PostExists(x)
DestroyMatches(u, x) == PostExists(x) /\ posts[x].user_id = u

DeletePost(p, u, x) ==
  /\ CanStart(p)
  /\ Begin(p, Request("delete", u, x))
  /\ IF DestroyMatches(u, x)
       THEN /\ posts' = [i \in DOMAIN posts \ {x} |->
                           IF posts[i].original_post_id = x
                             THEN [posts[i] EXCEPT !.original_post_id = 0]
                             ELSE posts[i]]
            /\ likes' = {l \in likes : l.post_id # x}
            /\ comments' = [comments EXCEPT ![x] = 0]
            /\ Finish(p, Ok(FALSE))
       ELSE /\ UNCHANGED <<posts, likes, comments>>
            /\ Finish(p, Err("Post not found or unauthorized"))
  /\ UNCHANGED <<nextPostId, nextLikeId, follows>>

\* ------------------------------------------------------------------ PostModel.like
LikeFindByPk(p, u, x) ==
  /\ CanStart(p)
  /\ Begin(p, [Request("like", u, x) EXCEPT !.snap = ReadCount(x, "likes")])
  /\ IF PostFound(x)
       THEN Goto(p, "like_findOne")
       ELSE Finish(p, Err("Post not found"))
  /\ UNCHANGED store

LikeFindOne(p) ==
  /\ pc[p] = "like_findOne"
  /\ IF ExistingLike(req[p].user, req[p].arg) # {}
       THEN \E l \in ExistingLike(req[p].user, req[p].arg) :
              /\ req' = [req EXCEPT ![p].existingLike = l.id]
              /\ pc' = [pc EXCEPT ![p] = "like_destroy"]
       ELSE /\ req' = req
            /\ pc' = [pc EXCEPT ![p] = "like_create"]
  /\ UNCHANGED <<store, resp, nreq>>

\* post.likes_count as the handler reads it after post.increment or
\* post.decrement. The dialect is postgres, where the UPDATE carries
\* RETURNING * and the instance takes the values of the row returned: it holds
\* the stored value when the row was updated, and keeps the value read by
\* findByPk when the update matched no row.
LikesCountOnInstance(rows, x, snap) ==
  IF x \in DOMAIN rows THEN rows[x].likes_count ELSE snap

LikeDestroy(p) ==
  /\ pc[p] = "like_destroy"
  /\ likes' = {l \in likes : l.id # req[p].existingLike}
  /\ pc' = [pc EXCEPT ![p] = "like_decrement"]
  /\ UNCHANGED <<posts, nextPostId, nextLikeId, comments, follows, req, resp, nreq>>

LikeDecrement(p) ==
  /\ pc[p] = "like_decrement"
  /\ posts' = IF PostExists(req[p].arg)
                THEN [posts EXCEPT ![req[p].arg].likes_count =
                        DecrementColumn(@, req[p].snap)]
                ELSE posts
  /\ Finish(p, OkLike(FALSE,
                     LikesCountOnInstance(posts', req[p].arg, req[p].snap) - 1))
  /\ UNCHANGED <<nextPostId, likes, nextLikeId, comments, follows, req, nreq>>

LikeCreate(p) ==
  /\ pc[p] = "like_create"
  /\ IF LikeUniqueViolation(req[p].user, req[p].arg)
       THEN /\ Finish(p, Err("SequelizeUniqueConstraintError"))
            /\ UNCHANGED <<likes, nextLikeId>>
       ELSE IF ~PostExists(req[p].arg)
         THEN /\ Finish(p, Err("SequelizeForeignKeyConstraintError"))
              /\ UNCHANGED <<likes, nextLikeId>>
         ELSE /\ likes' = likes \cup {[id |-> nextLikeId, user_id |-> req[p].user,
                                       post_id |-> req[p].arg]}
              /\ nextLikeId' = nextLikeId + 1
              /\ pc' = [pc EXCEPT ![p] = "like_increment"]
              /\ resp' = resp
  /\ UNCHANGED <<posts, nextPostId, comments, follows, req, nreq>>

LikeIncrement(p) ==
  /\ pc[p] = "like_increment"
  /\ posts' = IF PostExists(req[p].arg)
                THEN [posts EXCEPT ![req[p].arg].likes_count =
                        IncrementColumn(@, req[p].snap)]
                ELSE posts
  /\ Finish(p, OkLike(TRUE,
                     LikesCountOnInstance(posts', req[p].arg, req[p].snap) + 1))
  /\ UNCHANGED <<nextPostId, likes, nextLikeId, comments, follows, req, nreq>>

\* ------------------------------------------------------------------ PostModel.retweet
\* POST /posts/:postId/retweet with body { content }: the route passes the
\* content on unchecked; PostModel.retweet starts with Post.findByPk.
RetweetWith(p, u, x, c) ==
  /\ CanStart(p)
  /\ IdAvailable \/ ~PostFound(x)
  /\ Begin(p, [Request("retweet", u, x) EXCEPT
                 !.snap = ReadCount(x, "retweets"), !.content = c])
  /\ IF PostFound(x)
       THEN Goto(p, "retweet_create")
       ELSE Finish(p, Err("Original post not found"))
  /\ UNCHANGED store

\* A retweet without a comment (no content in the body).
RetweetFindByPk(p, u, x) == RetweetWith(p, u, x, <<>>)

\* Post.create of the retweet row; original_post_id references posts(id).
RetweetCreate(p) ==
  /\ pc[p] = "retweet_create"
  /\ IF PostExists(req[p].arg)
       THEN /\ posts' = [i \in DOMAIN posts \cup {nextPostId} |->
                           IF i = nextPostId
                             THEN NewPost(req[p].user, req[p].content, TRUE, req[p].arg)
                             ELSE posts[i]]
            /\ nextPostId' = nextPostId + 1
            /\ req' = [req EXCEPT ![p].created = nextPostId]
            /\ pc' = [pc EXCEPT ![p] = "retweet_increment"]
            /\ resp' = resp
       ELSE /\ Finish(p, Err("SequelizeForeignKeyConstraintError"))
            /\ UNCHANGED <<posts, nextPostId, req>>
  /\ UNCHANGED <<likes, nextLikeId, comments, follows, nreq>>

RetweetIncrement(p) ==
  /\ pc[p] = "retweet_increment"
  /\ posts' = IF PostExists(req[p].arg)
                THEN [posts EXCEPT ![req[p].arg].retweets_count =
                        IncrementColumn(@, req[p].snap)]
                ELSE posts
  /\ Finish(p, Ok(FALSE))
  /\ UNCHANGED <<nextPostId, likes, nextLikeId, comments, follows, req, nreq>>

\* ------------------------------------------------------------------ PostModel.addComment
CommentFindByPk(p, u, x) ==
  /\ CanStart(p)
  /\ Begin(p, [Request("comment", u, x) EXCEPT !.snap = ReadCount(x, "comments")])
  /\ IF PostFound(x)
       THEN Goto(p, "comment_create")
       ELSE Finish(p, Err("Post not found"))
  /\ UNCHANGED store

\* Comment.create; post_id references posts(id).
CommentCreate(p) ==
  /\ pc[p] = "comment_create"
  /\ IF PostExists(req[p].arg)
       THEN /\ comments' = [comments EXCEPT ![req[p].arg] = @ + 1]
            /\ pc' = [pc EXCEPT ![p] = "comment_increment"]
            /\ resp' = resp
       ELSE /\ Finish(p, Err("SequelizeForeignKeyConstraintError"))
            /\ UNCHANGED comments
  /\ UNCHANGED <<posts, nextPostId, likes, nextLikeId, follows, req, nreq>>

CommentIncrement(p) ==
  /\ pc[p] = "comment_increment"
  /\ posts' = IF PostExists(req[p].arg)
                THEN [posts EXCEPT ![req[p].arg].comments_count =
                        IncrementColumn(@, req[p].snap)]
                ELSE posts
  /\ Finish(p, Ok(FALSE))
  /\ UNCHANGED <<nextPostId, likes, nextLikeId, comments, follows, req, nreq>>

\* ------------------------------------------------------------------ PostModel.getTimeline
\* Query values of GET /posts: page and limit; offset = (page - 1) * limit.
Pages == 1..MaxPage
Limits == {1, DefaultLimit}

\* followingIds: the following_id of every Follow row of the user, then the
\* user's own id pushed.
FollowingIdsWithoutSelf(u, rows) == rows
FollowingIds(u, rows) == rows \cup {u}

\* The ids of a set of posts by created_at DESC (ids are assigned in insertion order).
RECURSIVE OrderDesc(_)
OrderDesc(S) ==
  IF S = {} THEN <<>>
  ELSE LET m == CHOOSE i \in S : \A j \in S : j <= i
       IN  <<m>> \o OrderDesc(S \ {m})

\* LIMIT limit OFFSET offset applied to an ordered result.
Slice(rows, limit, offset) ==
  SubSeq(rows, offset + 1, IF offset + limit < Len(rows) THEN offset + limit ELSE Len(rows))

\* Follow.findAll({ where: { follower_id: userId } }).
TimelineFindFollows(p, u, page, limit) ==
  /\ CanStart(p)
  /\ Begin(p, [Request("timeline", u, 0) EXCEPT
                 !.limit = limit, !.offset = (page - 1) * limit,
                 !.followingIds = FollowingIds(u, {v \in Users : follows[<<u, v>>] > 0})])
  /\ Goto(p, "timeline_posts")
  /\ UNCHANGED store

\* Post.findAll({ where: { user_id in followingIds }, order, limit, offset }).
TimelineFindPosts(p) ==
  /\ pc[p] = "timeline_posts"
  /\ Finish(p, OkList(Slice(OrderDesc({i \in DOMAIN posts : posts[i].user_id \in req[p].followingIds}),
                            req[p].limit, req[p].offset)))
  /\ UNCHANGED <<store, req, nreq>>

\* ------------------------------------------------------------------ PostModel.search
\* The characters the first replace of search turns into a space.
Stripped == {"'", "\"", ":", "&", "|", "!", "(", ")"}

\* Queries of GET /posts/search?q=: "a" is any non-blank character outside
\* Stripped; of the stripped characters, which the replace treats alike, the
\* queries use '!' and the two that have a meaning to to_tsquery here.
QueryChars == {"a", " ", "!", "&", ":"}
Queries == UNION {[1..n -> QueryChars] : n \in 0..MaxQueryLen}

\* .replace(/['":&|!()]/g, ' ')
ReplaceStripped(c) == [i \in 1..Len(c) |-> IF c[i] \in Stripped THEN " " ELSE c[i]]

\* .replace(/\s+/g, ' & '): every maximal run of whitespace becomes ' & '.
RECURSIVE ReplaceSpaceRuns(_)
ReplaceSpaceRuns(c) ==
  IF c = <<>> THEN <<>>
  ELSE IF Head(c) # " " THEN <<Head(c)>> \o ReplaceSpaceRuns(Tail(c))
  ELSE LET solid == {i \in 1..Len(c) : c[i] # " "} IN
         <<" ", "&", " ">> \o
           (IF solid = {} THEN <<>>
            ELSE ReplaceSpaceRuns(SubSeq(c, CHOOSE i \in solid : \A j \in solid : i <= j,
                                            Len(c))))

\* sanitizedQuery of PostModel.search, and the text handed to to_tsquery.
Sanitize(query) == ReplaceSpaceRuns(ReplaceStripped(Trim(query)))
TsQueryText(query) == Sanitize(query) \o <<":", "*">>

\* to_tsquery parses operand ( ' & ' operand )* with ':*' after the last
\* operand; an operator without an operand on both sides is a syntax error.
TsQueryParses(e) ==
  /\ Len(e) >= 3
  /\ e[Len(e) - 1] = ":" /\ e[Len(e)] = "*"
  /\ LET b == SubSeq(e, 1, Len(e) - 2) IN
       /\ b[1] = "a" /\ b[Len(b)] = "a"
       /\ \A i \in 1..Len(b) :
            /\ b[i] \in {"a", " ", "&"}
            /\ b[i] = "&" => (b[i - 1] = " " /\ b[i + 1] = " ")
            /\ b[i] = " " => \/ (b[i + 1] = "&" /\ b[i - 1] = "a")
                              \/ (b[i - 1] = "&" /\ b[i + 1] = "a")

\* The words of a text: its maximal runs of non-blank characters, as <<first, last>>.
WordSpans(c) ==
  {w \in (1..Len(c)) \X (1..Len(c)) :
     /\ w[1] <= w[2]
     /\ \A i \in w[1]..w[2] : c[i] # " "
     /\ w[1] = 1 \/ c[w[1] - 1] = " "
     /\ w[2] = Len(c) \/ c[w[2] + 1] = " "}
Words(c) == {SubSeq(c, w[1], w[2]) : w \in WordSpans(c)}

\* content_tsv @@ to_tsquery(e): every operand is a word of the content, the
\* last one a prefix of a word.
TsMatches(c, e) ==
  LET b == SubSeq(e, 1, Len(e) - 2) IN
    \A w \in WordSpans(b) :
      LET t == SubSeq(b, w[1], w[2]) IN
        \/ t = <<"&">>
        \/ IF w[2] = Len(b)
             THEN \E v \in Words(c) : Len(v) >= Len(t) /\ SubSeq(v, 1, Len(t)) = t
             ELSE t \in Words(c)

\* GET /posts/search: 400 on a blank query, else PostModel.search(q.trim());
\* a query to_tsquery rejects makes Post.findAll throw and the route answer 500.
Search(p, q) ==
  /\ CanStart(p)
  /\ IF q = <<>> \/ Trim(q) = <<>>
       THEN /\ Begin(p, [Request("search", 0, 0) EXCEPT !.content = q])
            /\ Finish(p, Err("Search query required"))
       ELSE /\ Begin(p, [Request("search", 0, 0) EXCEPT
                           !.content = q, !.tsquery = TsQueryText(Trim(q))])
            /\ IF TsQueryParses(TsQueryText(Trim(q)))
                 THEN Finish(p, OkList(OrderDesc({i \in DOMAIN posts :
                                 TsMatches(posts[i].content, TsQueryText(Trim(q)))})))
                 ELSE Finish(p, Err("Internal server error"))
  /\ UNCHANGED store

\* ------------------------------------------------------------------ POST /register, POST /login
\* /^[a-zA-Z0-9_]+$/ over the characters usernames are written with here.
ValidUsername(name) == \A i \in 1..Len(name) : name[i] \in {"a", "b", "A", "B", "0", "1", "_"}

\* Request bodies: absent, too short, with a character outside the pattern,
\* the names of the users present and one more; no password, a short one and
\* the passwords in use; no email or one address.
Usernames ==
  {<<>>, Repeat("a", MinUsernameLength - 1), <<"a", "-", "a">>}
    \cup {NameOf(n) : n \in 1..(NUsers + 1)}
Passwords ==
  {<<>>, Repeat("p", MinPasswordLength - 1)} \cup {PasswordOf(n) : n \in 2..3}
Emails == {<<>>, <<"e">>}

\* User.findOne({ where: { <column>: value } }): the ids of the rows found.
UsersWhere(column, value) == {i \in DOMAIN users : users[i][column] = value}

\* What findByUsername and findByWallet return: toJSON of the rows found.
FoundUsers(column, value) == {ToJSON(users[i]) : i \in UsersWhere(column, value)}

\* The user object of the /register and /login responses.
AuthView(user, fields) == [f \in fields \cap DOMAIN user |-> user[f]]

\* POST /register: the checks of the body and UserModel.findByUsername.
RegisterFindByUsername(p, name, password, email) ==
  /\ CanStart(p)
  /\ Begin(p, [Request("register", 0, 0) EXCEPT
                 !.username = name, !.password = password, !.email = email])
  /\ IF name = <<>> \/ password = <<>>
       THEN Finish(p, Err("Username and password are required"))
       ELSE IF Len(name) < MinUsernameLength
         THEN Finish(p, Err("Username must be at least 3 characters long"))
       ELSE IF ~ValidUsername(name)
         THEN Finish(p, Err("Username can only contain letters, numbers, and underscores"))
       ELSE IF Len(password) < MinPasswordLength
         THEN Finish(p, Err("Password must be at least 6 characters long"))
       ELSE IF UsersWhere("username", name) # {}
         THEN Finish(p, Err("Username already exists"))
       ELSE Goto(p, IF email # <<>> THEN "register_findEmail" ELSE "register_create")
  /\ UNCHANGED <<store, users>>

\* User.findOne({ where: { email } }) when the body has an email.
RegisterFindEmail(p) ==
  /\ pc[p] = "register_findEmail"
  /\ IF UsersWhere("email", req[p].email) # {}
       THEN Finish(p, Err("Email already exists"))
       ELSE pc' = [pc EXCEPT ![p] = "register_create"] /\ resp' = resp
  /\ UNCHANGED <<store, users, req, nreq>>

\* UserModel.create; username and email are unique columns, a violation is
\* answered 500.
RegisterCreate(p) ==
  /\ pc[p] = "register_create"
  /\ IF \/ UsersWhere("username", req[p].username) # {}
        \/ (req[p].email # <<>> /\ UsersWhere("email", req[p].email) # {})
       THEN /\ Finish(p, Err("Internal server error"))
            /\ UNCHANGED <<users, req>>
       ELSE LET row == [UserRow(NextUserId, req[p].username, req[p].password, <<>>)
                          EXCEPT !.email = req[p].email] IN
            /\ users' = [i \in DOMAIN users \cup {NextUserId} |->
                            IF i = NextUserId THEN row ELSE users[i]]
            /\ req' = [req EXCEPT ![p].returned = {ToJSON(row)}]
            /\ Finish(p, OkAuth(NextUserId,
                                 AuthView(ToJSON(row),
                                          {"id", "username", "email", "avatar_url", "bio"})))
  /\ UNCHANGED <<store, nreq>>

\* POST /login: UserModel.findByUsername, which returns toJSON of the row,
\* then the test of user.password_hash and validatePassword.
Login(p, name, password) ==
  /\ CanStart(p)
  /\ Begin(p, [Request("login", 0, 0) EXCEPT
                 !.username = name, !.password = password,
                 !.returned = IF name = <<>> \/ password = <<>> THEN {}
                              ELSE FoundUsers("username", name)])
  /\ IF name = <<>> \/ password = <<>>
       THEN Finish(p, Err("Username and password are required"))
       ELSE IF UsersWhere("username", name) = {}
         THEN Finish(p, Err("Invalid credentials"))
       ELSE LET user == ToJSON(users[CHOOSE i \in UsersWhere("username", name) : TRUE]) IN
         IF "password_hash" \notin DOMAIN user \/ user["password_hash"] = <<>>
           THEN Finish(p, Err("Invalid credentials"))
         ELSE IF ~ValidatePassword(password, user["password_hash"])
           THEN Finish(p, Err("Invalid credentials"))
         ELSE Finish(p, OkAuth(user["id"],
                               AuthView(user, {"id", "username", "email", "wallet_address",
                                               "avatar_url", "bio"})))
  /\ UNCHANGED <<store, users>>

\* ------------------------------------------------------------------ user reads
\* The Follow rows of a pair; users created after the start have none.
FollowRows(a, b) == IF <<a, b>> \in DOMAIN follows THEN follows[<<a, b>>] ELSE 0

\* UserModel.findById(id, true): toJSON of the row with the two Follow counts.
FindByIdWithStats(id) ==
  LET user == ToJSON(users[id]) IN
    [f \in DOMAIN user \cup {"followers_count", "following_count"} |->
       IF f = "followers_count"
         THEN Cardinality({a \in Users : FollowRows(a, id) > 0})
       ELSE IF f = "following_count"
         THEN Cardinality({b \in Users : FollowRows(id, b) > 0})
       ELSE user[f]]

\* userData.is_following = ... for a signed-in viewer other than the user.
WithIsFollowing(view, viewer, id) ==
  IF viewer = 0 \/ viewer = id THEN view
  ELSE [f \in DOMAIN view \cup {"is_following"} |->
          IF f = "is_following" THEN FollowRows(viewer, id) > 0 ELSE view[f]]

\* Ids asked for: those of the users present at the start and one more.
UserIds == 1..(NUsers + 1)
\* The signed-in user of a route with optionalAuth: 0 is nobody.
Viewers == {0} \cup Users

\* GET /users/:userId
GetUserById(p, viewer, id) ==
  /\ CanStart(p)
  /\ Begin(p, Request("getUser", viewer, id))
  /\ IF id \in DOMAIN users
       THEN Finish(p, OkUsers({WithIsFollowing(FindByIdWithStats(id), viewer, id)}))
       ELSE Finish(p, Err("User not found"))
  /\ UNCHANGED <<store, users>>

\* GET /users/profile/:username: findByUsername, then findById of its id.
GetProfile(p, viewer, name) ==
  /\ CanStart(p)
  /\ Begin(p, [Request("getProfile", viewer, 0) EXCEPT
                 !.username = name, !.returned = FoundUsers("username", name)])
  /\ IF UsersWhere("username", name) # {}
       THEN LET id == ToJSON(users[CHOOSE i \in UsersWhere("username", name) : TRUE])["id"] IN
            Finish(p, OkUsers({WithIsFollowing(FindByIdWithStats(id), viewer, id)}))
       ELSE Finish(p, Err("User not found"))
  /\ UNCHANGED <<store, users>>

\* GET /users/:userId/followers and /following-list: getFollowers and
\* getFollowing load four columns of each user and map toJSON over them.
ListedColumns == {"id", "username", "avatar_url", "bio"}
GetFollowers(p, id) ==
  /\ CanStart(p)
  /\ Begin(p, Request("getFollowers", 0, id))
  /\ Finish(p, OkUsers(IF id \in DOMAIN users
                         THEN {ToJSON(Attributes(users[a], ListedColumns)) :
                                 a \in {a \in Users : FollowRows(a, id) > 0}}
                         ELSE {}))
  /\ UNCHANGED <<store, users>>

GetFollowing(p, id) ==
  /\ CanStart(p)
  /\ Begin(p, Request("getFollowing", 0, id))
  /\ Finish(p, OkUsers(IF id \in DOMAIN users
                         THEN {ToJSON(Attributes(users[b], ListedColumns)) :
                                 b \in {b \in Users : FollowRows(id, b) > 0}}
                         ELSE {}))
  /\ UNCHANGED <<store, users>>

\* username ILIKE %query%
Contains(text, part) ==
  \E i \in 0..Len(text) :
    i + Len(part) <= Len(text) /\ SubSeq(ToLowerCase(text), i + 1, i + Len(part)) = ToLowerCase(part)

\* Queries of GET /users/search?q=.
UserQueries == {<<>>, <<" ">>, <<"a">>, <<"A", "a", "a", "a">>, <<"b">>}

\* GET /users/search: 400 on a blank query, else UserModel.search(q.trim()).
SearchUsers(p, q) ==
  /\ CanStart(p)
  /\ Begin(p, [Request("searchUsers", 0, 0) EXCEPT !.content = q])
  /\ IF q = <<>> \/ Trim(q) = <<>>
       THEN Finish(p, Err("Search query is required"))
       ELSE Finish(p, OkUsers({ToJSON(Attributes(users[i], ListedColumns)) :
                                 i \in {i \in DOMAIN users :
                                          Contains(users[i]["username"], Trim(q))}}))
  /\ UNCHANGED <<store, users>>

\* GET /users/recommendations: the users other than the viewer, five columns
\* loaded (created_at is not modelled), toJSON mapped over them.
Recommendations(p, viewer) ==
  /\ CanStart(p)
  /\ Begin(p, Request("recommendations", viewer, 0))
  /\ Finish(p, OkUsers({ToJSON(Attributes(users[i], ListedColumns)) :
                           i \in DOMAIN users \ {viewer}}))
  /\ UNCHANGED <<store, users>>

\* GET /verify behind authMiddleware: req.user = findById(decoded.userId, true)
\* is the response's user.
Verify(p, u) ==
  /\ CanStart(p)
  /\ Begin(p, Request("verify", u, 0))
  /\ Finish(p, OkUsers({FindByIdWithStats(u)}))
  /\ UNCHANGED <<store, users>>

\* POST /refresh behind authMiddleware: a new token and req.user.
Refresh(p, u) ==
  /\ CanStart(p)
  /\ Begin(p, Request("refresh", u, 0))
  /\ Finish(p, OkAuth(u, FindByIdWithStats(u)))
  /\ UNCHANGED <<store, users>>

\* GET /me behind authMiddleware: the listed fields of req.user.
Me(p, u) ==
  /\ CanStart(p)
  /\ Begin(p, Request("me", u, 0))
  /\ Finish(p, OkUsers({AuthView(FindByIdWithStats(u),
                                  {"id", "username", "email", "wallet_address", "avatar_url",
                                   "bio", "location", "website", "followers_count",
                                   "following_count"})}))
  /\ UNCHANGED <<store, users>>

\* ------------------------------------------------------------------ POST /metamask
\* /^0x[a-fA-F0-9]{40}$/
ValidWallet(w) ==
  /\ Len(w) = 2 + WalletHexLength
  /\ w[1] = "0" /\ w[2] = "x"
  /\ \A i \in 3..Len(w) : w[i] \in {"a", "b", "A", "B", "0", "1"}

\* The address whose hex digits are all ch.
Address(ch) == <<"0", "x">> \o Repeat(ch, WalletHexLength)

\* Request bodies: no address, one account in lower and in upper case, a second
\* account, and addresses the format check rejects.
Wallets ==
  {<<>>, Address("a"), Address("A"), Address("b"), Address("g"),
   <<"0", "x">> \o Repeat("a", WalletHexLength - 1),
   <<"0", "X">> \o Repeat("a", WalletHexLength)}

\* POST /metamask: the checks of the address, UserModel.findByWallet with the
\* address as sent, and for an address not found the checks of the username.
MetamaskFindByWallet(p, w, name) ==
  /\ CanStart(p)
  /\ Begin(p, [Request("metamask", 0, 0) EXCEPT
                 !.wallet = w, !.username = name,
                 !.returned = IF ValidWallet(w) THEN FoundUsers("wallet_address", w) ELSE {}])
  /\ IF w = <<>>
       THEN Finish(p, Err("Wallet address is required"))
       ELSE IF ~ValidWallet(w)
         THEN Finish(p, Err("Invalid wallet address format"))
       ELSE IF UsersWhere("wallet_address", w) # {}
         THEN LET i == CHOOSE i \in UsersWhere("wallet_address", w) : TRUE IN
              Finish(p, OkAuth(i, AuthView(ToJSON(users[i]),
                                           {"id", "username", "wallet_address",
                                            "avatar_url", "bio"})))
       ELSE IF name = <<>>
         THEN Finish(p, Err("Username is required for new MetaMask users"))
       ELSE IF Len(name) < MinUsernameLength
         THEN Finish(p, Err("Username must be at least 3 characters long"))
       ELSE IF ~ValidUsername(name)
         THEN Finish(p, Err("Username can only contain letters, numbers, and underscores"))
       ELSE Goto(p, "metamask_findByUsername")
  /\ UNCHANGED <<store, users>>

\* UserModel.findByUsername for a new wallet user.
MetamaskFindByUsername(p) ==
  /\ pc[p] = "metamask_findByUsername"
  /\ IF UsersWhere("username", req[p].username) # {}
       THEN Finish(p, Err("Username already exists"))
       ELSE pc' = [pc EXCEPT ![p] = "metamask_create"] /\ resp' = resp
  /\ UNCHANGED <<store, users, req, nreq>>

\* UserModel.create with walletAddress.toLowerCase(); username and
\* wallet_address are unique columns, a violation is answered 500.
MetamaskCreate(p) ==
  /\ pc[p] = "metamask_create"
  /\ IF \/ UsersWhere("username", req[p].username) # {}
        \/ UsersWhere("wallet_address", ToLowerCase(req[p].wallet)) # {}
       THEN /\ Finish(p, Err("Internal server error"))
            /\ UNCHANGED <<users, req>>
       ELSE LET row == UserRow(NextUserId, req[p].username, <<>>, ToLowerCase(req[p].wallet)) IN
            /\ users' = [i \in DOMAIN users \cup {NextUserId} |->
                            IF i = NextUserId THEN row ELSE users[i]]
            /\ req' = [req EXCEPT ![p].returned = {ToJSON(row)}]
            /\ Finish(p, OkAuth(NextUserId,
                                 AuthView(ToJSON(row), {"id", "username", "wallet_address",
                                                        "avatar_url", "bio"})))
  /\ UNCHANGED <<store, nreq>>

\* ------------------------------------------------------------------ UserModel.updateProfile
\* allowedFields of updateProfile.
AllowedFieldsAny == UserFields
AllowedFields == {"bio", "avatar_url", "cover_url", "location", "website"}

\* Bodies of PUT /users/profile: the keys present and the value they carry
\* (a number for id, text for the other keys).
KeySets ==
  {{}, {"bio", "email"}, {"username"},
   {"id", "password_hash", "wallet_address"}, UserFields}
FieldValues == {<<>>, <<"x">>}
Updates ==
  {[f \in K |-> IF f = "id" THEN Len(v) ELSE v] : K \in KeySets, v \in FieldValues}

\* filteredUpdates: the allowed fields present in updates.
FilteredUpdates(updates) ==
  [f \in AllowedFields \cap DOMAIN updates |-> updates[f]]

\* User.update(filteredUpdates, { where: { id: userId } }).
UpdateProfile(p, u, updates) ==
  /\ CanStart(p)
  /\ Begin(p, Request("updateProfile", u, 0))
  /\ users' = [users EXCEPT ![u] =
                 [f \in UserFields |->
                    IF f \in DOMAIN FilteredUpdates(updates)
                      THEN FilteredUpdates(updates)[f] ELSE @[f]]]
  /\ Goto(p, "profile_findById")
  /\ UNCHANGED store

\* this.findById(userId, true), returned by the route as { user }.
ProfileFindById(p) ==
  /\ pc[p] = "profile_findById"
  /\ Finish(p, OkUsers({ToJSON(users[req[p].user])}))
  /\ UNCHANGED <<store, users, req, nreq>>

\* ------------------------------------------------------------------ UserModel.follow
\* The slots that are inside a follow(a, b) call.
FollowsInFlight(a, b) ==
  {q \in Procs : pc[q] # "idle" /\ req[q].op = "follow"
                 /\ req[q].user = a /\ req[q].arg = b}

\* The self-follow guard, then Follow.findOrCreate's first query (findOne).
\* pre, partners and disturbed record, for each call, the number of (a, b)
\* rows it started from, the identical calls it overlapped with and whether
\* an unfollow(a, b) ran during it.
FollowFindOne(p, a, b) ==
  /\ CanStart(p)
  /\ nreq' = nreq + 1
  /\ IF IsSelfFollow(a, b)
       THEN /\ req' = [req EXCEPT ![p] = Request("follow", a, b)]
            /\ Finish(p, Err("Cannot follow yourself"))
       ELSE /\ req' = [q \in Procs |->
                         IF q = p
                           THEN [Request("follow", a, b) EXCEPT
                                   !.pre = follows[<<a, b>>],
                                   !.partners =
                                     {req[r].id : r \in FollowsInFlight(a, b)}]
                           ELSE IF q \in FollowsInFlight(a, b)
                             THEN [req[q] EXCEPT !.partners = @ \cup {nreq + 1}]
                             ELSE req[q]]
            /\ IF FollowFound(a, b)
                 THEN Finish(p, Err("Already following this user"))
                 ELSE Goto(p, "follow_create")
  /\ UNCHANGED store

\* findOrCreate's insert: the unique index decides; on a unique violation
\* findOrCreate looks the row up again.
FollowCreate(p) ==
  /\ pc[p] = "follow_create"
  /\ IF FollowUniqueViolation(req[p].user, req[p].arg)
       THEN /\ pc' = [pc EXCEPT ![p] = "follow_refind"]
            /\ resp' = resp
            /\ UNCHANGED follows
       ELSE /\ follows' = [follows EXCEPT ![<<req[p].user, req[p].arg>>] = @ + 1]
            /\ Finish(p, Ok(FALSE))
  /\ UNCHANGED <<posts, nextPostId, likes, nextLikeId, comments, req, nreq>>

\* findOrCreate's second findOne, after the unique violation.
FollowRefind(p) ==
  /\ pc[p] = "follow_refind"
  /\ IF FollowFound(req[p].user, req[p].arg)
       THEN Finish(p, Err("Already following this user"))
       ELSE Finish(p, Err("SequelizeUniqueConstraintError"))
  /\ UNCHANGED <<store, req, nreq>>

\* ------------------------------------------------------------------ UserModel.unfollow
\* Follow.destroy({ where: { follower_id, following_id } }); no row => error.
Unfollow(p, a, b) ==
  /\ CanStart(p)
  /\ nreq' = nreq + 1
  /\ req' = [q \in Procs |->
               IF q = p THEN Request("unfollow", a, b)
               ELSE IF q \in FollowsInFlight(a, b)
                 THEN [req[q] EXCEPT !.disturbed = TRUE]
                 ELSE req[q]]
  /\ IF ~NoRowDestroyed(follows[<<a, b>>])
       THEN /\ follows' = [follows EXCEPT ![<<a, b>>] = 0]
            /\ Finish(p, Ok(FALSE))
       ELSE /\ UNCHANGED follows
            /\ Finish(p, Err("Not following this user"))
  /\ UNCHANGED <<posts, nextPostId, likes, nextLikeId, comments>>

\* ------------------------------------------------------------------ specifications
\* Concurrent requests on posts: any interleaving of the handlers' round trips.
Next ==
  \E p \in Procs :
    \/ \E u \in Users : CreatePost(p, u) /\ UNCHANGED <<hist, users>>
    \/ \E u \in Users, x \in PostIds : DeletePost(p, u, x) /\ UNCHANGED <<hist, users>>
    \/ \E u \in Users, x \in PostIds : LikeFindByPk(p, u, x) /\ UNCHANGED <<hist, users>>
    \/ LikeFindOne(p) /\ UNCHANGED <<hist, users>>
    \/ LikeDestroy(p) /\ UNCHANGED <<hist, users>>
    \/ LikeDecrement(p) /\ UNCHANGED <<hist, users>>
    \/ LikeCreate(p) /\ UNCHANGED <<hist, users>>
    \/ LikeIncrement(p) /\ UNCHANGED <<hist, users>>
    \/ \E u \in Users, x \in PostIds : RetweetFindByPk(p, u, x) /\ UNCHANGED <<hist, users>>
    \/ RetweetCreate(p) /\ UNCHANGED <<hist, users>>
    \/ RetweetIncrement(p) /\ UNCHANGED <<hist, users>>
    \/ \E u \in Users, x \in PostIds : CommentFindByPk(p, u, x) /\ UNCHANGED <<hist, users>>
    \/ CommentCreate(p) /\ UNCHANGED <<hist, users>>
    \/ CommentIncrement(p) /\ UNCHANGED <<hist, users>>

Spec == Init /\ [][Next]_vars

\* One request at a time (slot 1 only): each call completes before the next
\* starts. hist keeps the previous call, the state it started from and the
\* state the current call started from.
HistAt(u, x) ==
  [op |-> req[1].op, user |-> req[1].user, arg |-> req[1].arg,
   status |-> resp[1].status, liked |-> resp[1].liked,
   preExists |-> hist.curExists, preRow |-> hist.curRow, preCount |-> hist.curCount,
   curExists |-> PostExists(x), curRow |-> LikeRows(u, x) # {},
   curCount |-> ReadCount(x, "likes")]

NextSeq ==
  \/ \E u \in Users : CreatePost(1, u) /\ hist' = HistAt(u, nextPostId) /\ UNCHANGED users
  \/ \E u \in Users, x \in PostIds : DeletePost(1, u, x) /\ hist' = HistAt(u, x) /\ UNCHANGED users
  \/ \E u \in Users, x \in PostIds : LikeFindByPk(1, u, x) /\ hist' = HistAt(u, x) /\ UNCHANGED users
  \/ \E u \in Users, x \in PostIds : RetweetFindByPk(1, u, x) /\ hist' = HistAt(u, x) /\ UNCHANGED users
  \/ \E u \in Users, x \in PostIds : CommentFindByPk(1, u, x) /\ hist' = HistAt(u, x) /\ UNCHANGED users
  \/ LikeFindOne(1) /\ UNCHANGED <<hist, users>>
  \/ LikeDestroy(1) /\ UNCHANGED <<hist, users>>
  \/ LikeDecrement(1) /\ UNCHANGED <<hist, users>>
  \/ LikeCreate(1) /\ UNCHANGED <<hist, users>>
  \/ LikeIncrement(1) /\ UNCHANGED <<hist, users>>
  \/ RetweetCreate(1) /\ UNCHANGED <<hist, users>>
  \/ RetweetIncrement(1) /\ UNCHANGED <<hist, users>>
  \/ CommentCreate(1) /\ UNCHANGED <<hist, users>>
  \/ CommentIncrement(1) /\ UNCHANGED <<hist, users>>

SpecSeq == Init /\ [][NextSeq]_vars

\* Concurrent requests, but each user has at most one request in flight.
UserIdle(u) == \A q \in Procs : pc[q] = "idle" \/ req[q].user # u

NextUsers ==
  \E p \in Procs :
    \/ \E u \in Users : UserIdle(u) /\ CreatePost(p, u) /\ UNCHANGED <<hist, users>>
    \/ \E u \in Users, x \in PostIds :
         UserIdle(u) /\ DeletePost(p, u, x) /\ UNCHANGED <<hist, users>>
    \/ \E u \in Users, x \in PostIds :
         UserIdle(u) /\ LikeFindByPk(p, u, x) /\ UNCHANGED <<hist, users>>
    \/ LikeFindOne(p) /\ UNCHANGED <<hist, users>>
    \/ LikeDestroy(p) /\ UNCHANGED <<hist, users>>
    \/ LikeDecrement(p) /\ UNCHANGED <<hist, users>>
    \/ LikeCreate(p) /\ UNCHANGED <<hist, users>>
    \/ LikeIncrement(p) /\ UNCHANGED <<hist, users>>

SpecUsers == Init /\ [][NextUsers]_vars

\* Concurrent toggleLike, create and delete requests by any users.
NextLikes ==
  \E p \in Procs :
    \/ \E u \in Users : CreatePost(p, u) /\ UNCHANGED <<hist, users>>
    \/ \E u \in Users, x \in PostIds : DeletePost(p, u, x) /\ UNCHANGED <<hist, users>>
    \/ \E u \in Users, x \in PostIds : LikeFindByPk(p, u, x) /\ UNCHANGED <<hist, users>>
    \/ LikeFindOne(p) /\ UNCHANGED <<hist, users>>
    \/ LikeDestroy(p) /\ UNCHANGED <<hist, users>>
    \/ LikeDecrement(p) /\ UNCHANGED <<hist, users>>
    \/ LikeCreate(p) /\ UNCHANGED <<hist, users>>
    \/ LikeIncrement(p) /\ UNCHANGED <<hist, users>>

SpecLikes == Init /\ [][NextLikes]_vars

\* Post creation, deletion and retweets only, interleaved.
NextRetweet ==
  \E p \in Procs :
    \/ \E u \in Users : CreatePost(p, u) /\ UNCHANGED <<hist, users>>
    \/ \E u \in Users, x \in PostIds : DeletePost(p, u, x) /\ UNCHANGED <<hist, users>>
    \/ \E u \in Users, x \in PostIds : RetweetFindByPk(p, u, x) /\ UNCHANGED <<hist, users>>
    \/ RetweetCreate(p) /\ UNCHANGED <<hist, users>>
    \/ RetweetIncrement(p) /\ UNCHANGED <<hist, users>>

SpecRetweet == Init /\ [][NextRetweet]_vars

\* Post creation and retweets with every request body, and deletion, one
\* request at a time.
NextContent ==
  \/ \E u \in Users, c \in Contents : CreatePostWith(1, u, c) /\ UNCHANGED <<hist, users>>
  \/ \E u \in Users, x \in PostIds, c \in Contents : RetweetWith(1, u, x, c) /\ UNCHANGED <<hist, users>>
  \/ RetweetCreate(1) /\ UNCHANGED <<hist, users>>
  \/ RetweetIncrement(1) /\ UNCHANGED <<hist, users>>
  \/ \E u \in Users, x \in PostIds : DeletePost(1, u, x) /\ UNCHANGED <<hist, users>>

SpecContent == Init /\ [][NextContent]_vars

\* Searches with every query, one request at a time.
NextSearch ==
  \/ \E q \in Queries : Search(1, q) /\ UNCHANGED <<hist, users>>

SpecSearch == Init /\ [][NextSearch]_vars

\* Post creation, deletion and comments only, interleaved.
NextComments ==
  \E p \in Procs :
    \/ \E u \in Users : CreatePost(p, u) /\ UNCHANGED <<hist, users>>
    \/ \E u \in Users, x \in PostIds : DeletePost(p, u, x) /\ UNCHANGED <<hist, users>>
    \/ \E u \in Users, x \in PostIds : CommentFindByPk(p, u, x) /\ UNCHANGED <<hist, users>>
    \/ CommentCreate(p) /\ UNCHANGED <<hist, users>>
    \/ CommentIncrement(p) /\ UNCHANGED <<hist, users>>

SpecComments == Init /\ [][NextComments]_vars

\* Concurrent follow / unfollow requests.
NextFollow ==
  \E p \in Procs :
    \/ \E a \in Users, b \in Users : FollowFindOne(p, a, b) /\ UNCHANGED <<hist, users>>
    \/ FollowCreate(p) /\ UNCHANGED <<hist, users>>
    \/ FollowRefind(p) /\ UNCHANGED <<hist, users>>
    \/ \E a \in Users, b \in Users : Unfollow(p, a, b) /\ UNCHANGED <<hist, users>>

SpecFollow == Init /\ [][NextFollow]_vars

\* Profile updates of all users, interleaved.
NextProfile ==
  \E p \in Procs :
    \/ \E u \in Users, updates \in Updates : UpdateProfile(p, u, updates) /\ UNCHANGED hist
    \/ ProfileFindById(p) /\ UNCHANGED hist

SpecProfile == Init /\ [][NextProfile]_vars

\* Registrations and logins, interleaved.
NextAuth ==
  \E p \in Procs :
    \/ \E name \in Usernames, password \in Passwords, email \in Emails :
         RegisterFindByUsername(p, name, password, email) /\ UNCHANGED hist
    \/ RegisterFindEmail(p) /\ UNCHANGED hist
    \/ RegisterCreate(p) /\ UNCHANGED hist
    \/ \E name \in Usernames, password \in Passwords :
         Login(p, name, password) /\ UNCHANGED hist

SpecAuth == Init /\ [][NextAuth]_vars

\* Wallet logins, interleaved.
NextWallet ==
  \E p \in Procs :
    \/ \E w \in Wallets, name \in Usernames :
         MetamaskFindByWallet(p, w, name) /\ UNCHANGED hist
    \/ MetamaskFindByUsername(p) /\ UNCHANGED hist
    \/ MetamaskCreate(p) /\ UNCHANGED hist

SpecWallet == Init /\ [][NextWallet]_vars

\* The routes that act on a referenced post or follow edge, one request at a
\* time. findOrCreate's re-find follows a unique violation only, which takes a
\* concurrent insert, so it has no step here.
NextStatus ==
  \/ \E u \in Users : CreatePost(1, u) /\ UNCHANGED <<hist, users>>
  \/ \E u \in Users, x \in PostIds : DeletePost(1, u, x) /\ UNCHANGED <<hist, users>>
  \/ \E u \in Users, x \in PostIds : LikeFindByPk(1, u, x) /\ UNCHANGED <<hist, users>>
  \/ LikeFindOne(1) /\ UNCHANGED <<hist, users>>
  \/ LikeDestroy(1) /\ UNCHANGED <<hist, users>>
  \/ LikeDecrement(1) /\ UNCHANGED <<hist, users>>
  \/ LikeCreate(1) /\ UNCHANGED <<hist, users>>
  \/ LikeIncrement(1) /\ UNCHANGED <<hist, users>>
  \/ \E u \in Users, x \in PostIds : RetweetFindByPk(1, u, x) /\ UNCHANGED <<hist, users>>
  \/ RetweetCreate(1) /\ UNCHANGED <<hist, users>>
  \/ RetweetIncrement(1) /\ UNCHANGED <<hist, users>>
  \/ \E u \in Users, x \in PostIds : CommentFindByPk(1, u, x) /\ UNCHANGED <<hist, users>>
  \/ CommentCreate(1) /\ UNCHANGED <<hist, users>>
  \/ CommentIncrement(1) /\ UNCHANGED <<hist, users>>
  \/ \E a \in Users, b \in Users : FollowFindOne(1, a, b) /\ UNCHANGED <<hist, users>>
  \/ FollowCreate(1) /\ UNCHANGED <<hist, users>>
  \/ \E a \in Users, b \in Users : Unfollow(1, a, b) /\ UNCHANGED <<hist, users>>

SpecStatus == Init /\ [][NextStatus]_vars

\* Every route that answers with users, one request at a time, with the
\* requests that change what they answer: follows by the sample user, profile
\* updates with every key, and a registration or wallet login of one new user.
\* The bodies the auth routes reject carry no user and are left to the
\* interleaved specifications of those routes.
NextViews ==
  \/ \E viewer \in Viewers, id \in UserIds : GetUserById(1, viewer, id) /\ UNCHANGED hist
  \/ \E viewer \in Viewers, name \in {NameOf(SampleUser), NameOf(NUsers + 1)} :
       GetProfile(1, viewer, name) /\ UNCHANGED hist
  \/ \E id \in UserIds : GetFollowers(1, id) /\ UNCHANGED hist
  \/ \E id \in UserIds : GetFollowing(1, id) /\ UNCHANGED hist
  \/ \E q \in UserQueries : SearchUsers(1, q) /\ UNCHANGED hist
  \/ \E viewer \in Viewers : Recommendations(1, viewer) /\ UNCHANGED hist
  \/ \E u \in Users : Verify(1, u) /\ UNCHANGED hist
  \/ \E u \in Users : Refresh(1, u) /\ UNCHANGED hist
  \/ \E u \in Users : Me(1, u) /\ UNCHANGED hist
  \/ \E u \in Users, updates \in {b \in Updates : DOMAIN b = UserFields} :
       UpdateProfile(1, u, updates) /\ UNCHANGED hist
  \/ ProfileFindById(1) /\ UNCHANGED hist
  \/ \E email \in Emails :
       RegisterFindByUsername(1, NameOf(NUsers + 1), PasswordOf(2), email) /\ UNCHANGED hist
  \/ RegisterFindEmail(1) /\ UNCHANGED hist
  \/ RegisterCreate(1) /\ UNCHANGED hist
  \/ \E name \in {NameOf(SampleUser), NameOf(NUsers + 1)} :
       Login(1, name, PasswordOf(2)) /\ UNCHANGED hist
  \/ \E w \in {Address("a"), Address("A")}, name \in {<<>>, NameOf(NUsers + 1)} :
       MetamaskFindByWallet(1, w, name) /\ UNCHANGED hist
  \/ MetamaskFindByUsername(1) /\ UNCHANGED hist
  \/ MetamaskCreate(1) /\ UNCHANGED hist
  \/ \E b \in Users : FollowFindOne(1, SampleUser, b) /\ UNCHANGED <<hist, users>>
  \/ FollowCreate(1) /\ UNCHANGED <<hist, users>>

SpecViews == Init /\ [][NextViews]_vars

\* follow, unfollow, createPost, createRetweet, deletePost and getTimeline, one
\* request at a time. findOrCreate's re-find follows a unique violation only,
\* which takes a concurrent insert, so it has no step here.
NextTimeline ==
  \/ \E u \in Users : CreatePost(1, u) /\ UNCHANGED <<hist, users>>
  \/ \E u \in Users, x \in PostIds : DeletePost(1, u, x) /\ UNCHANGED <<hist, users>>
  \/ \E u \in Users, x \in PostIds : RetweetFindByPk(1, u, x) /\ UNCHANGED <<hist, users>>
  \/ RetweetCreate(1) /\ UNCHANGED <<hist, users>>
  \/ RetweetIncrement(1) /\ UNCHANGED <<hist, users>>
  \/ \E a \in Users, b \in Users : FollowFindOne(1, a, b) /\ UNCHANGED <<hist, users>>
  \/ FollowCreate(1) /\ UNCHANGED <<hist, users>>
  \/ \E a \in Users, b \in Users : Unfollow(1, a, b) /\ UNCHANGED <<hist, users>>
  \/ \E u \in Users, page \in Pages, limit \in Limits :
        TimelineFindFollows(1, u, page, limit) /\ UNCHANGED <<hist, users>>
  \/ TimelineFindPosts(1) /\ UNCHANGED <<hist, users>>

SpecTimeline == Init /\ [][NextTimeline]_vars

\* ------------------------------------------------------------------ properties
AllIdle == \A p \in Procs : pc[p] = "idle"

\* The request that occupies slot p is a call op(u, x) that has returned or thrown.
Completed(p, op) == pc[p] = "idle" /\ req[p].op = op

\* The step taken is the first step of a new call in slot p.
Starts(p, op) ==
  pc[p] = "idle" /\ nreq' = nreq + 1 /\ req'[p].id = nreq + 1 /\ req'[p].op = op

\* C1: after any sequence of completed toggleLike calls run one after another,
\* every post's likes_count equals the number of Like rows of that post.
C1_LikesCountMatchesRows ==
  pc[1] = "idle" =>
    \A x \in DOMAIN posts : posts[x].likes_count = Cardinality(LikesOfPost(x))

\* C1 witness: an unlike has completed while another user's like remains.
C1_Witness ==
  /\ Completed(1, "like") /\ resp[1].status = "ok" /\ ~resp[1].liked
  /\ PostExists(req[1].arg) /\ posts[req[1].arg].likes_count = 1

\* C2: once interleaved toggleLike calls for the same (user, post) have all
\* completed or failed, the post's likes_count equals its number of Like rows.
C2_NoDriftSamePair ==
  (/\ AllIdle
   /\ \A p \in Procs : req[p].op = "like" /\ req[p].user = req[1].user
                       /\ req[p].arg = req[1].arg
   /\ PostExists(req[1].arg))
  => posts[req[1].arg].likes_count = Cardinality(LikesOfPost(req[1].arg))

\* C3: when toggleLike calls by different users on one post interleave, no
\* counter update is lost: after all calls complete, every post's likes_count
\* equals its number of Like rows.
C3_NoLostUpdate ==
  AllIdle =>
    \A x \in DOMAIN posts : Cardinality(LikesOfPost(x)) = posts[x].likes_count

\* C3 witness: two users liked the same post, both having read the counter
\* before either incremented it.
C3_Witness ==
  /\ AllIdle
  /\ \E p \in Procs, q \in Procs :
       /\ req[p].op = "like" /\ req[q].op = "like"
       /\ req[p].user # req[q].user /\ req[p].arg = req[q].arg
       /\ resp[p].status = "ok" /\ resp[p].liked
       /\ resp[q].status = "ok" /\ resp[q].liked
       /\ req[p].snap = 0 /\ req[q].snap = 0
       /\ PostExists(req[p].arg) /\ posts[req[p].arg].likes_count = 2

\* C4: two consecutive toggleLike calls for the same (user, post) on an
\* existing post, nothing in between, both succeed, return opposite values of
\* liked and leave the Like row's existence and likes_count as before the first.
C4_DoubleToggleRestores ==
  (/\ Completed(1, "like") /\ hist.op = "like"
   /\ hist.user = req[1].user /\ hist.arg = req[1].arg
   /\ hist.preExists)
  => /\ hist.status = "ok" /\ resp[1].status = "ok"
     /\ resp[1].liked # hist.liked
     /\ (LikeRows(req[1].user, req[1].arg) # {}) = hist.preRow
     /\ PostExists(req[1].arg)
     /\ posts[req[1].arg].likes_count = hist.preCount

\* C4 witness: unlike then like again, on a post that started with one like.
C4_Witness ==
  /\ Completed(1, "like") /\ hist.op = "like"
  /\ hist.user = req[1].user /\ hist.arg = req[1].arg
  /\ hist.preExists /\ hist.preRow /\ hist.preCount = 1
  /\ resp[1].status = "ok" /\ resp[1].liked

\* C5: in every reachable state every post's likes_count, retweets_count and
\* comments_count is at least 0.
C5_CountersNonNegative ==
  \A x \in DOMAIN posts :
    /\ posts[x].likes_count >= 0
    /\ posts[x].retweets_count >= 0
    /\ posts[x].comments_count >= 0

\* C6: in every reachable state, concurrent toggles included, there is at most
\* one Like row per (user, post).
C6_OneLikeRowPerPair ==
  \A u \in Users, x \in PostIds : Cardinality(LikeRows(u, x)) <= 1

\* C6 witness: a racing second insert for the same pair was rejected.
C6_Witness ==
  \E p \in Procs :
    /\ Completed(p, "like") /\ resp[p] = Err("SequelizeUniqueConstraintError")
    /\ Cardinality(LikeRows(req[p].user, req[p].arg)) = 1

\* C7: toggleLike on a post id that does not exist fails with 'Post not found'
\* and changes nothing in the store.
C7_LikeMissingPost ==
  [][\A p \in Procs :
       (Starts(p, "like") /\ ~PostExists(req'[p].arg))
       => /\ pc'[p] = "idle"
          /\ resp'[p] = Err("Post not found")
          /\ store' = store]_vars

\* C7 witness: a toggleLike on a missing post has failed.
C7_Witness ==
  \E p \in Procs :
    /\ Completed(p, "like") /\ resp[p] = Err("Post not found")
    /\ ~PostExists(req[p].arg)

\* C8: follow(a, b) on an existing edge fails with 'Already following this
\* user' and leaves exactly one (a, b) row; and there is never more than one
\* Follow row per ordered pair.
C8_FollowExistingEdge ==
  /\ [](\A e \in Users \X Users : follows[e] <= 1)
  /\ [][\A p \in Procs :
          (/\ Starts(p, "follow")
           /\ req'[p].user # req'[p].arg
           /\ follows[<<req'[p].user, req'[p].arg>>] > 0)
          => /\ pc'[p] = "idle"
             /\ resp'[p] = Err("Already following this user")
             /\ follows' = follows
             /\ follows'[<<req'[p].user, req'[p].arg>>] = 1]_vars

\* C8 witness: a follow on an existing edge has failed.
C8_Witness ==
  \E p \in Procs :
    /\ Completed(p, "follow") /\ req[p].pre = 1
    /\ resp[p] = Err("Already following this user")
    /\ follows[<<req[p].user, req[p].arg>>] = 1

\* Slots p and q hold two identical follow(a, b) calls that overlapped with
\* each other and with nothing else on (a, b), the earlier one having started
\* with no (a, b) row; both have returned or thrown.
RacedFollows(p, q) ==
  /\ p # q
  /\ Completed(p, "follow") /\ Completed(q, "follow")
  /\ req[p].user = req[q].user /\ req[p].arg = req[q].arg
  /\ req[p].user # req[p].arg
  /\ req[p].id < req[q].id
  /\ req[p].partners = {req[q].id} /\ req[q].partners = {req[p].id}
  /\ ~req[p].disturbed /\ ~req[q].disturbed
  /\ req[p].pre = 0

\* C9: of two identical concurrent follow(a, b) requests with no edge
\* beforehand, exactly one succeeds, the other fails with 'Already following
\* this user', and at most one (a, b) row exists afterwards.
C9_ConcurrentFollow ==
  \A p \in Procs, q \in Procs :
    RacedFollows(p, q) =>
      /\ \/ resp[p] = Ok(FALSE) /\ resp[q] = Err("Already following this user")
         \/ resp[q] = Ok(FALSE) /\ resp[p] = Err("Already following this user")
      /\ follows[<<req[p].user, req[p].arg>>] <= 1

\* C9 witness: both calls found no row, then raced on the insert.
C9_Witness ==
  \E p \in Procs, q \in Procs :
    /\ RacedFollows(p, q) /\ req[q].pre = 0
    /\ follows[<<req[p].user, req[p].arg>>] = 1

\* C10: follow(a, a) always fails with 'Cannot follow yourself', and no Follow
\* row ever has follower equal to followee.
C10_NoSelfFollow ==
  /\ \A a \in Users : follows[<<a, a>>] = 0
  /\ \A p \in Procs :
       (Completed(p, "follow") /\ req[p].user = req[p].arg)
       => resp[p] = Err("Cannot follow yourself")

\* C10 witness: a follow(a, a) has been refused.
C10_Witness ==
  \E p \in Procs :
    /\ Completed(p, "follow") /\ req[p].user = req[p].arg
    /\ resp[p] = Err("Cannot follow yourself")

\* C11: unfollow(a, b) with no (a, b) edge fails with 'Not following this
\* user' and leaves the Follow edges unchanged; with the edge present it
\* succeeds and removes exactly that edge.
C11_Unfollow ==
  [][\A p \in Procs :
       Starts(p, "unfollow") =>
         LET e == <<req'[p].user, req'[p].arg>> IN
           /\ pc'[p] = "idle"
           /\ IF follows[e] = 0
                THEN resp'[p] = Err("Not following this user") /\ follows' = follows
                ELSE resp'[p] = Ok(FALSE) /\ follows' = [follows EXCEPT ![e] = 0]]_vars

\* C11 witness: an unfollow of a missing edge has failed while another edge
\* is in place.
C11_Witness ==
  \E p \in Procs :
    /\ Completed(p, "unfollow") /\ resp[p] = Err("Not following this user")
    /\ follows[<<req[p].user, req[p].arg>>] = 0
    /\ \E e \in Users \X Users : follows[e] = 1

\* C12: createRetweet of a post id that does not exist fails with 'Original
\* post not found', creates no post row and changes no retweets_count.
C12_RetweetMissingPost ==
  [][\A p \in Procs :
       (Starts(p, "retweet") /\ ~PostExists(req'[p].arg)) =>
         /\ pc'[p] = "idle"
         /\ resp'[p] = Err("Original post not found")
         /\ posts' = posts
         /\ nextPostId' = nextPostId]_vars

\* C12 witness: a retweet of a missing post id has failed while a post with a
\* non-zero retweets_count exists.
C12_Witness ==
  \E p \in Procs :
    /\ Completed(p, "retweet") /\ resp[p] = Err("Original post not found")
    /\ ~PostExists(req[p].arg)
    /\ \E i \in DOMAIN posts : posts[i].retweets_count > 0

C15_CommentsCountMatchesRows ==
  /\ [](AllIdle => \A x \in DOMAIN posts : posts[x].comments_count = comments[x])
  /\ [][\A p \in Procs :
          (Starts(p, "comment") /\ ~PostExists(req'[p].arg)) =>
            /\ pc'[p] = "idle"
            /\ resp'[p] = Err("Post not found")
            /\ posts' = posts
            /\ comments' = comments]_vars

\* C15 witness: two comments on a post have completed and a third addComment
\* on an absent post has failed.
C15_Witness ==
  /\ AllIdle
  /\ \E x \in DOMAIN posts : comments[x] = 2 /\ posts[x].comments_count = 2
  /\ \E p \in Procs :
       /\ Completed(p, "comment") /\ resp[p] = Err("Post not found")
       /\ ~PostExists(req[p].arg)

\* C16: a post is removed only by a deletePost of its owner; a deletePost by a
\* non-owner leaves the store unchanged, and its result ('Post not found or
\* unauthorized') is identical to the result for a post id that does not exist.
C16_DeleteOwnerOnly ==
  /\ [][\A x \in DOMAIN posts :
          x \notin DOMAIN posts' =>
            \E p \in Procs : /\ Starts(p, "delete")
                             /\ req'[p].arg = x
                             /\ req'[p].user = posts[x].user_id]_vars
  /\ [][\A p \in Procs :
          (Starts(p, "delete") /\ ~(PostExists(req'[p].arg)
                                     /\ posts[req'[p].arg].user_id = req'[p].user)) =>
            /\ store' = store
            /\ pc'[p] = "idle"
            /\ resp'[p] = Err("Post not found or unauthorized")]_vars
  /\ [](\A p, q \in Procs :
          (Completed(p, "delete") /\ Completed(q, "delete")
             /\ resp[p].status = "error" /\ resp[q].status = "error") =>
            resp[p] = resp[q])

\* C16 witness: one deletePost by a non-owner of an existing post and one
\* deletePost of a missing post id have both returned.
C16_Witness ==
  \E p, q \in Procs :
    /\ Completed(p, "delete") /\ resp[p].status = "error"
    /\ PostExists(req[p].arg) /\ posts[req[p].arg].user_id # req[p].user
    /\ Completed(q, "delete") /\ resp[q].status = "error"
    /\ ~PostExists(req[q].arg)

\* The existing posts authored by u or by a user that u follows.
C17_Feed(u) ==
  {i \in DOMAIN posts : posts[i].user_id = u \/ follows[<<u, posts[i].user_id>>] > 0}

\* C17: with requests served one at a time, getTimeline(u, limit, offset)
\* returns posts of the feed of u only (u's own posts and those of the users u
\* follows, so u's own posts when u follows nobody), newest first, and exactly
\* the positions offset + 1 .. offset + limit of that order.
C17_Timeline ==
  Completed(1, "timeline") =>
    LET r == resp[1].value
        F == C17_Feed(req[1].user)
        rest == IF Cardinality(F) > req[1].offset THEN Cardinality(F) - req[1].offset ELSE 0
    IN  /\ resp[1].status = "ok"
        /\ Len(r) = IF rest < req[1].limit THEN rest ELSE req[1].limit
        /\ \A k \in 1..Len(r) :
             /\ r[k] \in F
             /\ Cardinality({i \in F : i > r[k]}) = req[1].offset + k - 1

\* C17 witness: a user who follows an author got a first page holding a post of
\* that author above the user's own post.
C17_Witness ==
  /\ Completed(1, "timeline")
  /\ Len(resp[1].value) = 2
  /\ posts[resp[1].value[1]].user_id # req[1].user
  /\ posts[resp[1].value[2]].user_id = req[1].user

\* C18: every post row has a body that is non-empty and at most 280
\* characters long.
C18_BodyWithinBounds ==
  \A i \in DOMAIN posts :
    Len(posts[i].content) >= 1 /\ Len(posts[i].content) <= MaxContentLength

\* C19: a search whose query is non-empty after trimming hands to_tsquery a
\* well-formed expression (non-empty operands free of stripped characters
\* joined by ' & ', the last one marked ':*') and does not error.
C19_SearchWellFormed ==
  (Completed(1, "search") /\ Trim(req[1].content) # <<>>) =>
    /\ TsQueryParses(req[1].tsquery)
    /\ resp[1].status = "ok"

\* C20: an updateProfile of user u changes at most bio, avatar_url, cover_url,
\* location and website of u; u's id, username, email, wallet_address and
\* password_hash and every other user's record stay as they were.
C20_ProfileAllowList ==
  [][\A p \in Procs :
       Starts(p, "updateProfile") =>
         /\ \A f \in {"id", "username", "email", "wallet_address", "password_hash"} :
              users'[req'[p].user][f] = users[req'[p].user][f]
         /\ \A v \in Users \ {req'[p].user} : users'[v] = users[v]]_vars

\* C20 witness: a profile update has completed for a user whose bio is set
\* while another user's record is as created.
C20_Witness ==
  \E p \in Procs :
    /\ Completed(p, "updateProfile")
    /\ users[req[p].user]["bio"] # NewUser(req[p].user)["bio"]
    /\ \E v \in Users \ {req[p].user} : users[v] = NewUser(v)

\* C25: a /login with the username and the password of a user row that holds
\* the hash of that password succeeds and issues a token for that user.
C25_RegisteredUserLogsIn ==
  [][\A p \in Procs :
       (/\ Starts(p, "login")
        /\ \E i \in DOMAIN users :
             /\ users[i]["username"] = req'[p].username
             /\ users[i]["password_hash"] = Hash(req'[p].password)) =>
         /\ resp'[p].status = "ok"
         /\ \E i \in DOMAIN users :
              users[i]["username"] = req'[p].username /\ resp'[p].token = Token(i)]_vars

\* C26: once a user row holds wallet address W, a /metamask request with W in
\* any letter case the format check accepts returns that user with a token, at
\* once: it neither asks for a username nor goes on to create a user.
C26_WalletLoginStable ==
  [][\A p \in Procs :
       (/\ Starts(p, "metamask")
        /\ ValidWallet(req'[p].wallet)
        /\ \E i \in DOMAIN users : users[i]["wallet_address"] = ToLowerCase(req'[p].wallet)) =>
         /\ pc'[p] = "idle"
         /\ resp'[p].status = "ok"
         /\ \E i \in DOMAIN users :
              /\ users[i]["wallet_address"] = ToLowerCase(req'[p].wallet)
              /\ resp'[p].token = Token(i)]_vars

\* C21: no user representation a UserModel operation hands to a route, and none
\* in a response body, has a password_hash.
C21_NoPasswordHashOutward ==
  \A p \in Procs :
    /\ \A v \in req[p].returned : "password_hash" \notin DOMAIN v
    /\ \A v \in resp[p].views : "password_hash" \notin DOMAIN v

\* C21 witness: a response carries the representation of a user whose row
\* holds a password hash.
C21_Witness ==
  \E p \in Procs : \E v \in resp[p].views :
    /\ v["id"] \in DOMAIN users
    /\ users[v["id"]]["password_hash"] # <<>>
    /\ "username" \in DOMAIN v

\* C22: a toggleLike, createRetweet or addComment refused for a missing post
\* and an unfollow refused for a missing edge are answered with status 404; a
\* follow refused as a duplicate is answered with status 400.
C22_NotFoundStatus ==
  \A p \in Procs :
    (pc[p] = "idle" /\ resp[p].status = "error") =>
      /\ (/\ req[p].op \in {"like", "retweet", "comment", "unfollow"}
          /\ resp[p].error \in {"Post not found", "Original post not found",
                                "Not following this user"})
           => HttpStatus(req[p].op, resp[p]) = 404
      /\ (req[p].op = "follow" /\ resp[p].error = "Already following this user")
           => HttpStatus(req[p].op, resp[p]) = 400

\* C23: with requests served one at a time, a toggleLike that succeeds returns
\* liked = true exactly when the (user, post) Like row exists after the call,
\* and a like_count equal to the post's stored likes_count after the call.
C23_LikeResult ==
  (Completed(1, "like") /\ resp[1].status = "ok") =>
    /\ resp[1].liked = (LikeRows(req[1].user, req[1].arg) # {})
    /\ PostExists(req[1].arg)
    /\ resp[1].like_count = posts[req[1].arg].likes_count

\* C24: with createRetweet and deletePost calls served one at a time, whenever
\* no call is in flight each post's retweets_count equals the number of
\* existing posts whose original_post_id refers to it.
C24_RetweetsCountMatchesRows ==
  AllIdle =>
    \A x \in DOMAIN posts :
      posts[x].retweets_count =
        Cardinality({i \in DOMAIN posts : posts[i].original_post_id = x})

====
